---- MODULE Spec2Model ----
(***************************************************************************)
(* Steel section lookup (uc_ub_data_retrieval.py): SectionDatabase with    *)
(* its table loader, find_section, the built-up H-section formula and the  *)
(* HTTP handler get_section.                                               *)
(*                                                                         *)
(* Text is modelled as a sequence of characters, each character a one-     *)
(* symbol string: "uc 3x4" is <<"u","c"," ","3","x","4">>.  The alphabet   *)
(* of the model is: digits, ".", "e", "a", "(", the letters of the         *)
(* prefixes in both cases, and the separators "x", "*" (standing for the   *)
(* multiplication sign U+00D7), " " and ",".                               *)
(*                                                                         *)
(* A Python float is modelled as (n/d) * 10^e with n/d an exact fraction   *)
(* in lowest terms: rounding is not modelled, the range of the type is.    *)
(***************************************************************************)
EXTENDS Integers, Sequences, FiniteSets, TLC

VARIABLES
    tables,     \* SectionDatabase.tables: section type -> loaded table
    phase,      \* "constructed" | "idle" | "responded"
    input,      \* input_string of the request being answered
    outcome,    \* what find_section returned or raised for input
    status,     \* what get_section made of it: "200" | "404" | "unhandled"
    text,       \* build_keys: the cell of the designation column it is applied to
    keys,       \* build_keys: the keys it returned for text
    dims,       \* _h_section_properties: the arguments <<D, B, T, t>>
    hprops      \* _h_section_properties: what it returned or raised for dims

vars == <<tables, phase, input, outcome, status, text, keys, dims, hprops>>

-----------------------------------------------------------------------------
(* Characters and the str methods the code uses *)

Digits == {"0", "1", "2", "3", "4", "5", "6", "7", "8", "9"}

MulSign == "*"

IsSpace(c) == c = " "

LowerChar(c) ==
    CASE c = "U" -> "u"
      [] c = "C" -> "c"
      [] c = "B" -> "b"
      [] c = "H" -> "h"
      [] c = "X" -> "x"
      [] c = "E" -> "e"
      [] c = "A" -> "a"
      [] OTHER -> c

Lower(s) == [i \in 1..Len(s) |-> LowerChar(s[i])]

Strip(s) ==
    LET keep == {i \in 1..Len(s) : ~IsSpace(s[i])}
        lo == CHOOSE i \in keep : \A j \in keep : i <= j
        hi == CHOOSE i \in keep : \A j \in keep : j <= i
    IN  IF keep = {} THEN <<>> ELSE SubSeq(s, lo, hi)

NotSpace(c) == ~IsSpace(c)

RemoveSpaces(s) == SelectSeq(s, NotSpace)

StartsWith(s, p) == Len(s) >= Len(p) /\ SubSeq(s, 1, Len(p)) = p

IsSubstring(p, s) ==
    \E i \in 0..(Len(s) - Len(p)) : SubSeq(s, i + 1, i + Len(p)) = p

(* re.split(r'[x×\s,]+', s): the pieces between maximal runs of separators, *)
(* an empty piece where s starts or ends with a separator.                  *)
IsSep(c) == c = "x" \/ c = MulSign \/ IsSpace(c) \/ c = ","

RECURSIVE DropWhileSep(_)
DropWhileSep(s) ==
    IF s # <<>> /\ IsSep(Head(s)) THEN DropWhileSep(Tail(s)) ELSE s

RECURSIVE SplitAcc(_, _, _)
SplitAcc(s, cur, acc) ==
    IF s = <<>> THEN Append(acc, cur)
    ELSE IF IsSep(Head(s)) THEN SplitAcc(DropWhileSep(s), <<>>, Append(acc, cur))
    ELSE SplitAcc(Tail(s), Append(cur, Head(s)), acc)

Split(s) == SplitAcc(s, <<>>, <<>>)

(* re.match(r"^\s*<prefix>\s*[,\s]*(.+)$", s): group (.+), or no match.  The *)
(* two starred classes are greedy and (.+) needs one character, so when      *)
(* everything after the prefix is whitespace and commas the group is the     *)
(* last character.                                                           *)
IsSpaceOrComma(c) == IsSpace(c) \/ c = ","

RECURSIVE DropWhileSpace(_)
DropWhileSpace(s) ==
    IF s # <<>> /\ IsSpace(Head(s)) THEN DropWhileSpace(Tail(s)) ELSE s

RECURSIVE DropWhileSpaceOrComma(_)
DropWhileSpaceOrComma(s) ==
    IF s # <<>> /\ IsSpaceOrComma(Head(s)) THEN DropWhileSpaceOrComma(Tail(s)) ELSE s

NoMatch == [matched |-> FALSE, group |-> <<>>]

MatchPrefix(s, prefix) ==
    LET s1 == DropWhileSpace(s)
        rest == SubSeq(s1, Len(prefix) + 1, Len(s1))
        tail == DropWhileSpaceOrComma(rest)
    IN  IF ~StartsWith(s1, prefix) \/ rest = <<>> THEN NoMatch
        ELSE IF tail # <<>> THEN [matched |-> TRUE, group |-> tail]
        ELSE [matched |-> TRUE, group |-> <<rest[Len(rest)]>>]

-----------------------------------------------------------------------------
(* Python floats *)

Abs(i) == IF i < 0 THEN -i ELSE i

RECURSIVE GCD(_, _)
GCD(a, b) == IF b = 0 THEN a ELSE GCD(b, a % b)

RECURSIVE Pow10(_)
Pow10(k) == IF k = 0 THEN 1 ELSE 10 * Pow10(k - 1)

Zero == [n |-> 0, d |-> 1, e |-> 0]

Norm(n, d, e) ==
    IF n = 0 THEN Zero
    ELSE LET g == GCD(Abs(n), d)
         IN  [n |-> n \div g, d |-> d \div g, e |-> e]

F(i) == Norm(i, 1, 0)

FMul(a, b) == Norm(a.n * b.n, a.d * b.d, a.e + b.e)

FDiv(a, b) == Norm(a.n * b.d, a.d * b.n, a.e - b.e)

FNeg(a) == [a EXCEPT !.n = -a.n]

(* Operands of one decade add exactly.  Operands of different decades differ *)
(* by a factor beyond the 17 significant digits of a double (the only       *)
(* exponents the model's numerals carry are 0 and those above FoldExp, far  *)
(* apart), so the sum rounds to the larger operand.                         *)
FAdd(a, b) ==
    IF a.n = 0 THEN b
    ELSE IF b.n = 0 THEN a
    ELSE IF a.e = b.e THEN Norm(a.n * b.d + b.n * a.d, a.d * b.d, a.e)
    ELSE IF a.e > b.e THEN a
    ELSE b

FSub(a, b) == FAdd(a, FNeg(b))

FPow(a, k) == IF k = 0 THEN F(1) ELSE IF k = 2 THEN FMul(a, a) ELSE FMul(a, FMul(a, a))

(* sys.float_info.max_10_exp: float ** raises OverflowError past the range *)
MaxTenExp == 308

PowOverflows(a, k) == a.n # 0 /\ k * a.e > MaxTenExp

RECURSIVE DigitsToInt(_)
DigitsToInt(s) ==
    IF s = <<>> THEN 0
    ELSE 10 * DigitsToInt(SubSeq(s, 1, Len(s) - 1))
         + (CHOOSE v \in 0..9 : <<"0", "1", "2", "3", "4", "5", "6", "7", "8", "9">>[v + 1] = s[Len(s)])

AllDigits(s) == \A i \in 1..Len(s) : s[i] \in Digits

(* Exponents up to FoldExp are folded into the fraction, so that "1e1" and  *)
(* "10" are the same value.                                                *)
FoldExp == 3

NotAFloat == [ok |-> FALSE, v |-> Zero]

(* float(s) for s over the model's alphabet: digits with an optional point, *)
(* at least one digit, optionally followed by "e" and digits.               *)
ParseFloat(s) ==
    LET es == {i \in 1..Len(s) : s[i] = "e"}
        ep == IF es = {} THEN Len(s) + 1 ELSE CHOOSE i \in es : TRUE
        mant == SubSeq(s, 1, ep - 1)
        expo == SubSeq(s, ep + 1, Len(s))
        ps == {i \in 1..Len(mant) : mant[i] = "."}
        pp == IF ps = {} THEN Len(mant) + 1 ELSE CHOOSE i \in ps : TRUE
        ip == SubSeq(mant, 1, pp - 1)
        fp == SubSeq(mant, pp + 1, Len(mant))
        E == DigitsToInt(expo)
        n == DigitsToInt(ip \o fp)
    IN  IF Cardinality(es) > 1 \/ Cardinality(ps) > 1 THEN NotAFloat
        ELSE IF es # {} /\ (expo = <<>> \/ ~AllDigits(expo)) THEN NotAFloat
        ELSE IF ~AllDigits(ip) \/ ~AllDigits(fp) \/ ip \o fp = <<>> THEN NotAFloat
        ELSE IF es = {} \/ E <= FoldExp
             THEN [ok |-> TRUE, v |-> Norm(n * Pow10(IF es = {} THEN 0 ELSE E), Pow10(Len(fp)), 0)]
             ELSE [ok |-> TRUE, v |-> Norm(n, Pow10(Len(fp)), E)]

-----------------------------------------------------------------------------
(* Table cells and _load_single_table *)

NaN == [na |-> TRUE, val |-> <<>>]

Cell(v) == [na |-> FALSE, val |-> v]

ColDesignation == "Section designation"
ColExtra == "section_designation_extra"
ColMass == "Mass per metre        kg/m"
ColKey == "lookup_key"
ColFullKey == "full_lookup_key"
ColExtraNum == "extra_numeric"

DigitRun(s) ==
    CHOOSE k \in 0..Len(s) :
        /\ \A i \in 1..k : s[i] \in Digits
        /\ k = Len(s) \/ s[k + 1] \notin Digits

(* re.findall(r"\d+(?:\.\d+)?", txt) *)
RECURSIVE FindNums(_)
FindNums(txt) ==
    IF txt = <<>> THEN <<>>
    ELSE IF Head(txt) \notin Digits THEN FindNums(Tail(txt))
    ELSE LET k == DigitRun(txt)
             after == SubSeq(txt, k + 1, Len(txt))
             fl == IF Len(after) >= 2 /\ after[1] = "." /\ after[2] \in Digits
                   THEN 1 + DigitRun(Tail(after))
                   ELSE 0
         IN  <<SubSeq(txt, 1, k + fl)>> \o FindNums(SubSeq(txt, k + fl + 1, Len(txt)))

(* A slip: key2 built only when a third number follows *)
build_keys_OffByOne(s) ==
    LET txt == IF s.na THEN <<>> ELSE s.val
        nums == FindNums(txt)
        key2 == IF Len(nums) > 2 THEN nums[1] \o <<"x">> \o nums[2] ELSE <<>>
        key3 == IF Len(nums) >= 3
                THEN nums[1] \o <<"x">> \o nums[2] \o <<"x">> \o nums[3]
                ELSE <<>>
    IN  [lookup_key |-> Lower(key2), full_lookup_key |-> Lower(key3)]

build_keys(s) ==
    LET txt == IF s.na THEN <<>> ELSE s.val
        nums == FindNums(txt)
        key2 == IF Len(nums) >= 2 THEN nums[1] \o <<"x">> \o nums[2] ELSE <<>>
        key3 == IF Len(nums) >= 3
                THEN nums[1] \o <<"x">> \o nums[2] \o <<"x">> \o nums[3]
                ELSE <<>>
    IN  [lookup_key |-> Lower(key2), full_lookup_key |-> Lower(key3)]

extra_num(v) ==
    LET nums == FindNums(v.val)
    IN  IF v.na \/ nums = <<>> THEN NaN ELSE Cell(ParseFloat(nums[1]).v)

(* df['Section designation'].ffill() *)
RECURSIVE Ffill(_, _)
Ffill(rows, last) ==
    IF rows = <<>> THEN <<>>
    ELSE LET r == Head(rows)
             d == IF r.designation.na THEN last ELSE r.designation
         IN  <<[r EXCEPT !.designation = d]>> \o Ffill(Tail(rows), d)

HasDesignation(r) == ~r.designation.na

Columns(extra_col) ==
    {ColDesignation, ColMass, ColKey, ColFullKey, ColExtraNum}
        \cup (IF extra_col THEN {ColExtra} ELSE {})

LoadedRow(r, extra_col) ==
    LET k == build_keys(r.designation)
    IN  [c \in Columns(extra_col) |->
            CASE c = ColDesignation -> r.designation
              [] c = ColMass -> r.mass
              [] c = ColExtra -> r.extra
              [] c = ColKey -> Cell(k.lookup_key)
              [] c = ColFullKey -> Cell(k.full_lookup_key)
              [] c = ColExtraNum -> IF extra_col THEN extra_num(r.extra) ELSE NaN]

(* A sheet without a 'Section designation' header row makes the load raise. *)
LoadFails(sheet) == ~sheet.header

load_single_table(sheet) ==
    LET kept == SelectSeq(Ffill(sheet.rows, NaN), HasDesignation)
    IN  [columns |-> Columns(sheet.extra_col),
         rows |-> [i \in 1..Len(kept) |-> LoadedRow(kept[i], sheet.extra_col)]]

(* load_all_tables over the files found: files maps a section type whose    *)
(* file exists to its sheet; a load that raises leaves the type unloaded.   *)
load_all_tables(files) ==
    [t \in {u \in DOMAIN files : ~LoadFails(files[u])} |-> load_single_table(files[t])]

-----------------------------------------------------------------------------
(* _h_section_properties *)

AreaName == "Area (A) (mm^2)"
IxxName == "Second moment of area (Ixx) (mm^4)"

h_section_properties(D, B, T, t) ==
    LET A_flange == FMul(B, T)
        A_top == A_flange
        A_bot == A_flange
        A_web == FMul(t, FSub(D, FMul(F(2), T)))
        A == FAdd(FAdd(A_top, A_bot), A_web)
        y_top == FSub(FDiv(D, F(2)), FDiv(T, F(2)))
        y_bot == FNeg(y_top)
        web_h == FSub(D, FMul(F(2), T))
        I_top_centroid == FDiv(FMul(B, FPow(T, 3)), F(12))
        I_bot_centroid == I_top_centroid
        I_web_centroid == FDiv(FMul(t, FPow(web_h, 3)), F(12))
        I_top == FAdd(I_top_centroid, FMul(A_top, FPow(y_top, 2)))
        I_bot == FAdd(I_bot_centroid, FMul(A_bot, FPow(y_bot, 2)))
        I_web == I_web_centroid
        Ixx == FAdd(FAdd(I_top, I_bot), I_web)
    IN  IF \/ PowOverflows(T, 3)
           \/ PowOverflows(web_h, 3)
           \/ PowOverflows(y_top, 2)
           \/ PowOverflows(y_bot, 2)
        THEN [raised |-> TRUE, exc |-> "OverflowError", A |-> Zero, Ixx |-> Zero]
        ELSE [raised |-> FALSE, exc |-> "", A |-> A, Ixx |-> Ixx]

-----------------------------------------------------------------------------
(* find_section *)

EmptyProps == [c \in {} |-> <<>>]

(* An outcome of find_section.  at is the source line that raised; row is   *)
(* the position in the table of the record returned and path the return     *)
(* statement that returned it (observations, not part of the result).       *)
Raise(exc, at, msg) ==
    [raised |-> TRUE, exc |-> exc, at |-> at, msg |-> msg, type |-> "",
     section |-> <<>>, properties |-> EmptyProps, row |-> 0, path |-> ""]

Return(type, section, properties, row, path) ==
    [raised |-> FALSE, exc |-> "", at |-> 0, msg |-> <<>>, type |-> type,
     section |-> section, properties |-> properties, row |-> row, path |-> path]

NoOutcome == Return("", <<>>, EmptyProps, 0, "")

(* {k: v for k, v in row.drop(dropped).items() if pd.notna(v)} *)
format_row(row, dropped) ==
    [c \in {k \in DOMAIN row \ dropped : ~row[k].na} |-> row[c].val]

(* A slip: the last of the matching rows instead of the first *)
iloc0_Last(S) == CHOOSE i \in S : \A j \in S : j <= i

(* matches.iloc[0]: the first of the matching rows, in the table's order *)
iloc0(S) == CHOOSE i \in S : \A j \in S : i <= j

(* Series.str.contains(key, na=False) takes key as a regular expression.    *)
(* Of the characters a key of the model can hold, "." matches any character *)
(* and "(" opens a group that nothing closes, which re.compile rejects; the *)
(* others match themselves.                                                 *)
re_compiles(pat) == \A i \in 1..Len(pat) : pat[i] # "("

str_contains(pat, s) ==
    \E i \in 0..(Len(s) - Len(pat)) :
        \A j \in 1..Len(pat) : pat[j] = "." \/ pat[j] = s[i + j]

(* str(v) of a cell: NaN prints as 'nan' *)
AsStr(cell) == IF cell.na THEN <<"n", "a", "n">> ELSE cell.val

LookupKeyOf(parts, designation) ==
    IF Len(parts) >= 2
    THEN Lower(RemoveSpaces(parts[1] \o <<"x">> \o parts[2]))
    ELSE Lower(RemoveSpaces(designation))

(* A slip: the containment test alone, without the exact match first *)
Candidates_ContainsOnly(rows, key) ==
    {i \in 1..Len(rows) : str_contains(key, rows[i][ColKey].val)}

(* Lines 189-193: the rows that match key exactly and, only when there are  *)
(* none, the rows whose lookup_key contains it                              *)
Candidates(rows, key) ==
    LET exact == {i \in 1..Len(rows) : rows[i][ColKey].val = key}
    IN  IF exact # {} THEN exact
        ELSE {i \in 1..Len(rows) : str_contains(key, rows[i][ColKey].val)}

(* A slip: the numeric refinement tried before the full key *)
TierOrder_NumericFirst == <<"extra_numeric", "full_lookup_key", "section_designation_extra">>

(* Lines 209-230: the refinements by the third part, in the order tried *)
TierOrder == <<"full_lookup_key", "extra_numeric", "section_designation_extra">>

(* The rows of matches a refinement selects; none when its guard fails *)
tier_matches(df, matches, parts, tier) ==
    LET rows == df.rows
        third_raw == parts[3]
        third_val == ParseFloat(third_raw)
        full_key == Lower(RemoveSpaces(parts[1] \o <<"x">> \o parts[2] \o <<"x">> \o parts[3]))
        norm == <<"x">> \o Lower(RemoveSpaces(Strip(third_raw)))
    IN  CASE tier = "full_lookup_key" ->
                IF third_raw # <<>> /\ \E i \in matches : Len(rows[i][ColFullKey].val) > 0
                THEN {i \in matches : rows[i][ColFullKey].val = full_key}
                ELSE {}
          [] tier = "extra_numeric" ->
                IF third_val.ok /\ ColExtraNum \in df.columns
                THEN {i \in matches : ~rows[i][ColExtraNum].na
                                       /\ rows[i][ColExtraNum].val = third_val.v}
                ELSE {}
          [] tier = "section_designation_extra" ->
                IF ColExtra \in df.columns
                THEN {i \in matches :
                         Lower(RemoveSpaces(Strip(AsStr(rows[i][ColExtra])))) = norm}
                ELSE {}

(* The columns each return statement drops from the row: lines 215, 222 and *)
(* 230 for a refinement, line 237 for the fallback                          *)
DroppedByTier == {ColKey, ColFullKey}

DroppedByFallback == {ColKey}

(* Lines 179-238: the lookup in the table df of section_type *)
lookup(df, section_type, designation) ==
    LET rows == df.rows
        parts == Split(designation)
        key == LookupKeyOf(parts, designation)
        exact == {i \in 1..Len(rows) : rows[i][ColKey].val = key}
        matches == Candidates(rows, key)
        fired == {k \in 1..Len(TierOrder) :
                     tier_matches(df, matches, parts, TierOrder[k]) # {}}
        first == CHOOSE k \in fired : \A j \in fired : k <= j
        hit == iloc0(tier_matches(df, matches, parts, TierOrder[first]))
    IN  IF exact = {} /\ ~re_compiles(key)
        THEN Raise("re.error", 193, <<"missing ), unterminated subpattern">>)
        ELSE IF matches = {}
        THEN Raise("ValueError", 196, <<section_type, " section '", designation, "' not found">>)
        ELSE IF Len(parts) >= 3 /\ fired # {}
        THEN Return(section_type, designation,
                    format_row(rows[hit], DroppedByTier), hit, TierOrder[first])
        ELSE Return(section_type, designation,
                    format_row(rows[iloc0(matches)], DroppedByFallback), iloc0(matches), "first")

HPrefix == <<"h">>

(* Lines 147-164: the built-up H shortcut, m_h being its match *)
h_branch(m_h) ==
    LET designation == Strip(m_h.group)
        parts == Split(designation)
        D == ParseFloat(parts[1])
        B == ParseFloat(parts[2])
        T == ParseFloat(parts[3])
        t == ParseFloat(parts[4])
        hp == h_section_properties(D.v, B.v, T.v, t.v)
    IN  IF Len(parts) < 4
        THEN Raise("ValueError", 151,
                   <<"H-section requires 4 dimensions: D x B x T x t (e.g. 'h 300x150x20x10')">>)
        ELSE IF ~(D.ok /\ B.ok /\ T.ok /\ t.ok)
        THEN Raise("ValueError", 155, <<"Could not parse H-section dimensions as numbers">>)
        ELSE IF hp.raised
        THEN Raise(hp.exc, 156, <<"(34, 'Numerical result out of range')">>)
        ELSE Return("H-BuiltUp", <<"h", " ">> \o designation,
                    [c \in {AreaName, IxxName} |-> IF c = AreaName THEN hp.A ELSE hp.Ixx],
                    0, "h")

find_section(tbls, input_string) ==
    LET input_lower == Strip(Lower(input_string))
        m_h == MatchPrefix(input_lower, HPrefix)
        m_uc == MatchPrefix(input_lower, <<"u", "c">>)
        m_ub == MatchPrefix(input_lower, <<"u", "b">>)
        m == IF m_uc.matched THEN m_uc ELSE m_ub
        section_type == IF m_uc.matched THEN "UC" ELSE "UB"
        designation == Strip(m.group)
    IN  IF m_h.matched THEN h_branch(m_h)
        ELSE IF ~m.matched
        THEN Raise("ValueError", 169,
                   <<"Input must start with 'uc' or 'ub' followed by a designation, e.g. 'uc 356x406' or 'ub,914x305x576'">>)
        ELSE IF section_type \notin DOMAIN tbls
        THEN Raise("ValueError", 176, <<section_type, " table not loaded">>)
        ELSE lookup(tbls[section_type], section_type, designation)

(* get_section: a ValueError becomes HTTPException(404); any other          *)
(* exception leaves the handler.                                            *)
get_section_status(o) ==
    IF ~o.raised THEN "200"
    ELSE IF o.exc = "ValueError" THEN "404"
    ELSE "unhandled"

-----------------------------------------------------------------------------
(* Bounds and the inputs drawn within them *)

MaxRows == 2        \* rows of the two sheets together
MaxTokens == 4      \* tokens of a designation typed by the caller
MaxTextLen == 7     \* characters of a designation text given to build_keys

SeqsUpTo(S, n) == UNION {[1..k -> S] : k \in 0..n}

Txt3x4 == <<"3", " ", "x", " ", "4">>

(* Rows of a catalog sheet: a depth x width heading with its variant in the *)
(* second column, a continuation row that leaves the heading blank, a       *)
(* heading that spells the third dimension out, and a wider section whose   *)
(* key contains the first one's.                                            *)
RawRows ==
    { [designation |-> Cell(Txt3x4), extra |-> Cell(<<"x", " ", "8">>), mass |-> Cell(F(1))],
      [designation |-> NaN, extra |-> Cell(<<"x", " ", "0", ".", "5">>), mass |-> NaN],
      [designation |-> Cell(Txt3x4 \o <<" ", "x", " ", "8">>), extra |-> NaN, mass |-> Cell(F(2))],
      [designation |-> Cell(<<"1">> \o Txt3x4), extra |-> Cell(<<"X", " ", ".", "5">>), mass |-> Cell(F(3))] }

(* The catalog files hold at least one row with a heading. *)
Sheets ==
    {sh \in [header : BOOLEAN, extra_col : BOOLEAN, rows : SeqsUpTo(RawRows, MaxRows)] :
        \E i \in 1..Len(sh.rows) : ~sh.rows[i].designation.na}

SectionTypes == {"UC", "UB"}

RowsIn(files) ==
    (IF "UC" \in DOMAIN files THEN Len(files["UC"].rows) ELSE 0)
        + (IF "UB" \in DOMAIN files THEN Len(files["UB"].rows) ELSE 0)

FileSets ==
    {files \in UNION {[present -> Sheets] : present \in SUBSET SectionTypes} :
        RowsIn(files) <= MaxRows}

RECURSIVE Join(_, _)
Join(toks, sep) ==
    IF toks = <<>> THEN <<>>
    ELSE IF Len(toks) = 1 THEN toks[1]
    ELSE toks[1] \o sep \o Join(Tail(toks), sep)

(* What a caller types at each position of a designation *)
LookupTokens(pos) ==
    CASE pos = 1 -> {<<"3">>, <<".">>, <<>>}
      [] pos = 2 -> {<<"4">>, <<>>}
      [] pos = 3 -> {<<"8">>, <<".", "5">>, <<"a">>, <<>>}
      [] OTHER -> {<<"9">>}

HTokens(pos) ==
    CASE pos = 1 -> {<<"8">>, <<"1", "e", "2", "0", "0">>, <<"a">>}
      [] pos = 2 -> {<<"2">>}
      [] pos = 3 -> {<<"4">>, <<"1", "e", "2", "0", "0">>}
      [] pos = 4 -> {<<"1">>, <<>>}
      [] OTHER -> {<<"9">>}

LookupDesignations ==
    {toks \in SeqsUpTo(UNION {LookupTokens(p) : p \in 1..MaxTokens}, MaxTokens) :
        Len(toks) >= 1 /\ \A p \in 1..Len(toks) : toks[p] \in LookupTokens(p)}

HDesignations ==
    {toks \in SeqsUpTo(UNION {HTokens(p) : p \in 1..MaxTokens}, MaxTokens) :
        Len(toks) >= 1 /\ \A p \in 1..Len(toks) : toks[p] \in HTokens(p)}

(* Two ways of typing a request: "uc 3x4x8" and " UB,3 * 4 * 8" *)
Typed(pad, prefix, presep, toks, sep) == pad \o prefix \o presep \o Join(toks, sep)

Plain(prefix, toks) == Typed(<<>>, prefix, <<" ">>, toks, <<"x">>)

Spaced(prefix, toks) == Typed(<<" ">>, prefix, <<",">>, toks, <<" ", MulSign, " ">>)

Inputs ==
    {Plain(<<"u", "c">>, toks) : toks \in LookupDesignations}
        \cup {Spaced(<<"U", "B">>, toks) : toks \in LookupDesignations}
        \cup {Plain(<<"h">>, toks) : toks \in HDesignations}
        \cup {Spaced(<<"H">>, toks) : toks \in HDesignations}
        \cup {<<"u", "c", " ", "3", ".", "4">>, <<"u", "c", " ", "(", "3">>,
              <<"a", " ", "3", "x", "4">>, <<"u", "c">>, <<"h">>, <<>>}

-----------------------------------------------------------------------------
(* The service: load once, then answer requests *)

NoKeys == [lookup_key |-> <<"?">>, full_lookup_key |-> <<"?">>]

NoHProps == [raised |-> FALSE, exc |-> "none", A |-> Zero, Ixx |-> Zero]

IdleFunctions ==
    /\ text = NaN
    /\ keys = NoKeys
    /\ dims = <<Zero, Zero, Zero, Zero>>
    /\ hprops = NoHProps

IdleService ==
    /\ tables = [t \in {} |-> <<>>]
    /\ phase = "constructed"
    /\ input = <<>>
    /\ outcome = NoOutcome
    /\ status = ""

Init == IdleService /\ IdleFunctions

(* create_fastapi_app: db = SectionDatabase(); db.load_all_tables() *)
LoadAllTables ==
    /\ phase = "constructed"
    /\ \E files \in FileSets : tables' = load_all_tables(files)
    /\ phase' = "idle"
    /\ UNCHANGED <<input, outcome, status, text, keys, dims, hprops>>

(* GET /section/{input_string} *)
GetSection ==
    /\ phase = "idle"
    /\ \E s \in Inputs :
          /\ input' = s
          /\ outcome' = find_section(tables, s)
          /\ status' = get_section_status(find_section(tables, s))
    /\ phase' = "responded"
    /\ UNCHANGED <<tables, text, keys, dims, hprops>>

(* The response is sent; the server waits for the next request. *)
NextRequest ==
    /\ phase = "responded"
    /\ phase' = "idle"
    /\ input' = <<>>
    /\ outcome' = NoOutcome
    /\ status' = ""
    /\ UNCHANGED <<tables, text, keys, dims, hprops>>

Next == LoadAllTables \/ GetSection \/ NextRequest

Spec == Init /\ [][Next]_vars

-----------------------------------------------------------------------------
(* build_keys on its own: any text of the designation column *)

KeyAlphabet == {"1", "2", ".", "x"}

KeyTexts == {NaN} \cup {Cell(s) : s \in SeqsUpTo(KeyAlphabet, MaxTextLen)}

InitKeys ==
    /\ IdleService
    /\ text \in KeyTexts
    /\ keys = NoKeys
    /\ dims = <<Zero, Zero, Zero, Zero>>
    /\ hprops = NoHProps

ApplyBuildKeys ==
    /\ keys = NoKeys
    /\ keys' = build_keys(text)
    /\ UNCHANGED <<tables, phase, input, outcome, status, text, dims, hprops>>

NextKeys == ApplyBuildKeys

SpecKeys == InitKeys /\ [][NextKeys]_vars

-----------------------------------------------------------------------------
(* _h_section_properties on its own: any four dimensions *)

MaxDim == 3         \* whole dimensions 0..MaxDim, besides one half and 1e200

HValues ==
    {F(i) : i \in 0..MaxDim}
        \cup {ParseFloat(<<".", "5">>).v, ParseFloat(<<"1", "e", "2", "0", "0">>).v}

InitH ==
    /\ IdleService
    /\ text = NaN
    /\ keys = NoKeys
    /\ dims \in HValues \X HValues \X HValues \X HValues
    /\ hprops = NoHProps

ApplyHSection ==
    /\ hprops = NoHProps
    /\ hprops' = h_section_properties(dims[1], dims[2], dims[3], dims[4])
    /\ UNCHANGED <<tables, phase, input, outcome, status, text, keys, dims>>

NextH == ApplyHSection

SpecH == InitH /\ [][NextH]_vars

-----------------------------------------------------------------------------
(* The request being answered, as find_section reads it *)

Answered == phase = "responded"

Q == Strip(Lower(input))

QIsH == MatchPrefix(Q, HPrefix).matched

QMatch ==
    LET q == Q
        uc == MatchPrefix(q, <<"u", "c">>)
    IN  IF uc.matched THEN uc ELSE MatchPrefix(q, <<"u", "b">>)

QType == IF MatchPrefix(Q, <<"u", "c">>).matched THEN "UC" ELSE "UB"

QIsLookup == LET q == Q IN ~MatchPrefix(q, HPrefix).matched /\ QMatch.matched

(* A UC/UB request whose table is loaded *)
QLoaded == Answered /\ QIsLookup /\ QType \in DOMAIN tables

QDesignation == Strip(QMatch.group)

QParts == Split(QDesignation)

QKey == LET designation == QDesignation IN LookupKeyOf(Split(designation), designation)

QRows == tables[QType].rows

QCands == Candidates(QRows, QKey)

First(S) == CHOOSE i \in S : \A j \in S : i <= j

ExactRows ==
    LET rows == QRows
        key == QKey
    IN  {i \in 1..Len(rows) : rows[i][ColKey].val = key}

LiteralRows ==
    LET rows == QRows
        key == QKey
    IN  {i \in 1..Len(rows) : IsSubstring(key, rows[i][ColKey].val)}

NotFound == outcome.raised /\ outcome.exc = "ValueError" /\ outcome.at = 196

(* The three selections of the disambiguation, as the specification words them *)
FullKeySel ==
    LET rows == QRows
        parts == QParts
        full_key == Lower(parts[1] \o <<"x">> \o parts[2] \o <<"x">> \o parts[3])
    IN  {i \in QCands : rows[i][ColFullKey].val = full_key}

NumericSel ==
    LET rows == QRows
        third == ParseFloat(QParts[3])
    IN  {i \in QCands :
            /\ third.ok
            /\ ~rows[i][ColExtraNum].na
            /\ rows[i][ColExtraNum].val = third.v}

TextSel ==
    LET rows == QRows
        text_key == <<"x">> \o QParts[3]
    IN  {i \in QCands :
            /\ ColExtra \in DOMAIN rows[i]
            /\ ~rows[i][ColExtra].na
            /\ Lower(RemoveSpaces(rows[i][ColExtra].val)) = text_key}

-----------------------------------------------------------------------------
(* C1.  Disambiguation tier order: for a UC/UB query of at least 3 tokens   *)
(* with a non-empty candidate set, the record returned is the first         *)
(* candidate whose full_lookup_key equals token0 x token1 x token2 if there *)
(* is one; otherwise the first whose extra_numeric equals token2 as a       *)
(* number if there is one; otherwise the first whose extra text equals      *)
(* 'x' + token2 if there is one.  An earlier tier wins even when a later    *)
(* tier's match comes earlier in the table.                                 *)
C1_TierOrder ==
    (QLoaded /\ Len(QParts) >= 3 /\ QCands # {}) =>
        LET full == FullKeySel
            numeric == NumericSel
            textual == TextSel
        IN  /\ ~outcome.raised
            /\ full # {} => outcome.row = First(full)
            /\ (full = {} /\ numeric # {}) => outcome.row = First(numeric)
            /\ (full = {} /\ numeric = {} /\ textual # {}) => outcome.row = First(textual)

(* A full-key match was returned although a numeric match stands before it, *)
(* or a numeric match although a textual match stands before it.            *)
C1_Witness ==
    /\ QLoaded /\ Len(QParts) >= 3 /\ ~outcome.raised
    /\ \/ /\ FullKeySel # {} /\ NumericSel # {}
          /\ First(NumericSel) < First(FullKeySel)
          /\ outcome.row = First(FullKeySel)
       \/ /\ FullKeySel = {} /\ NumericSel # {} /\ TextSel # {}
          /\ First(TextSel) < First(NumericSel)
          /\ outcome.row = First(NumericSel)

(* C2.  Exact-match precedence: when some record's lookup_key equals the    *)
(* query key, the candidates are exactly those records and the record       *)
(* returned is one of them; a record whose key merely contains the query    *)
(* key is returned only when no record matches exactly.                     *)
C2_ExactPrecedence ==
    QLoaded =>
        LET exact == ExactRows
        IN  /\ exact # {} =>
                  /\ QCands = exact
                  /\ ~outcome.raised
                  /\ outcome.row \in exact
                  /\ QRows[outcome.row][ColKey].val = QKey
            /\ (~outcome.raised /\ QRows[outcome.row][ColKey].val # QKey) => exact = {}

(* An exact match was returned although a record that merely contains the   *)
(* key stands before it in the table.                                       *)
C2_Witness ==
    /\ QLoaded /\ ExactRows # {} /\ ~outcome.raised
    /\ \E i \in LiteralRows \ ExactRows : i < First(ExactRows)
    /\ outcome.row = First(ExactRows)

(* C3.  First-candidate fallback: with fewer than 3 tokens, or with 3 or    *)
(* more when no tier selects a record, the result is the first record of    *)
(* the candidate set in the table's row order.                              *)
C3_FirstCandidate ==
    (QLoaded /\ QCands # {}
        /\ (Len(QParts) < 3 \/ (FullKeySel = {} /\ NumericSel = {} /\ TextSel = {}))) =>
        LET first == First(QCands)
        IN  /\ ~outcome.raised
            /\ outcome.row = first
            /\ outcome.properties[ColDesignation] = QRows[first][ColDesignation].val

(* Two tokens against a group of several rows, and three tokens that no     *)
(* tier resolves: both answered with the first row of the group.            *)
C3_Witness ==
    /\ QLoaded /\ ~outcome.raised
    /\ Cardinality(QCands) >= 2
    /\ Len(QParts) = 2
    /\ outcome.row = First(QCands)

C3_WitnessUnresolved ==
    /\ QLoaded /\ ~outcome.raised
    /\ Cardinality(QCands) >= 2
    /\ Len(QParts) >= 3 /\ QParts[3] # <<>>
    /\ FullKeySel = {} /\ NumericSel = {} /\ TextSel = {}
    /\ outcome.row = First(QCands)

(* C4.  The properties of a successful UC/UB lookup are exactly the         *)
(* non-null fields of the winning record, without the internal key fields   *)
(* lookup_key, full_lookup_key, extra_numeric, section_designation_extra.   *)
InternalColumns == {ColKey, ColFullKey, ColExtraNum, ColExtra}

C4_PropertiesExcludeInternal ==
    (QLoaded /\ ~outcome.raised) =>
        DOMAIN outcome.properties
            = {c \in DOMAIN QRows[outcome.row] \ InternalColumns : ~QRows[outcome.row][c].na}

(* C5.  Not-found condition: the lookup fails with the not-found error      *)
(* exactly when no lookup_key equals the query key and none contains it as  *)
(* a literal substring; otherwise it returns a record whose lookup_key      *)
(* equals or literally contains the key.                                    *)
C5_NotFoundIffNoLiteralMatch ==
    QLoaded =>
        /\ NotFound <=> (ExactRows = {} /\ LiteralRows = {})
        /\ ~(ExactRows = {} /\ LiteralRows = {}) =>
              ~outcome.raised /\ outcome.row \in ExactRows \cup LiteralRows

(* C6.  All-or-nothing outcome: every call returns a complete result of     *)
(* type UC, UB or H-BuiltUp, or fails with one of the documented            *)
(* failures, each a ValueError that the HTTP handler maps to not-found.     *)
DocumentedFailure ==
    /\ outcome.raised
    /\ outcome.exc = "ValueError"
    /\ outcome.at \in {151, 155, 169, 176, 196}
    /\ status = "404"

CompleteResult ==
    /\ ~outcome.raised
    /\ outcome.type \in {"UC", "UB", "H-BuiltUp"}
    /\ status = "200"

C6_AllOrNothing == Answered => (CompleteResult \/ DocumentedFailure)

(* C7.  An H built-up request fails with 'insufficient dimensions' when it  *)
(* has fewer than 4 tokens, with 'non-numeric dimension' when one of the    *)
(* first 4 is no number, and otherwise returns an H-BuiltUp result computed *)
(* from the first 4 tokens, whatever tables are loaded.                     *)
HParts == Split(Strip(MatchPrefix(Q, HPrefix).group))

HNumeric == \A i \in 1..4 : ParseFloat(HParts[i]).ok

C7_HRequestOutcome ==
    (Answered /\ QIsH) =>
        /\ Len(HParts) < 4 =>
              outcome.raised /\ outcome.exc = "ValueError" /\ outcome.at = 151
        /\ (Len(HParts) >= 4 /\ ~HNumeric) =>
              outcome.raised /\ outcome.exc = "ValueError" /\ outcome.at = 155
        /\ (Len(HParts) >= 4 /\ HNumeric) =>
              ~outcome.raised /\ outcome.type = "H-BuiltUp"

(* C8.  H-section formula: for all D, B, T, t the function returns          *)
(* A = 2*B*T + t*(D - 2T) and Ixx with                                      *)
(* 12*Ixx = 2*B*T^3 + 6*B*T*(D - T)^2 + t*(D - 2T)^3, also when D <= 2T.    *)
HFormulaHolds ==
    LET D == dims[1]
        B == dims[2]
        T == dims[3]
        t == dims[4]
        web == FSub(D, FMul(F(2), T))
    IN  /\ hprops.A = FAdd(FMul(F(2), FMul(B, T)), FMul(t, web))
        /\ FMul(F(12), hprops.Ixx)
              = FAdd(FAdd(FMul(F(2), FMul(B, FPow(T, 3))),
                          FMul(F(6), FMul(FMul(B, T), FPow(FSub(D, T), 2)))),
                     FMul(t, FPow(web, 3)))

C8_HFormula == hprops # NoHProps => (~hprops.raised /\ HFormulaHolds)

(* What does hold of the formula: it is computed as stated whenever no      *)
(* power leaves the range of a float, D <= 2T included.                     *)
HFormulaWithinRange ==
    (hprops # NoHProps /\ dims[1].e = 0 /\ dims[3].e = 0) => (~hprops.raised /\ HFormulaHolds)

(* C9.  build_keys is total: key2 is empty iff the text holds fewer than 2  *)
(* maximal numeric substrings and is otherwise the first two joined by 'x'; *)
(* key3 is empty iff it holds fewer than 3 and is otherwise the first three *)
(* joined by 'x'; a non-empty key3 starts with key2 and 'x'.                *)
TextOf(cell) == IF cell.na THEN <<>> ELSE cell.val

RunStart(txt, j) ==
    CHOOSE s \in 1..j :
        /\ \A k \in s..j : txt[k] \in Digits
        /\ s = 1 \/ txt[s - 1] \notin Digits

(* A numeric substring starts at a digit that continues neither a run of    *)
(* digits nor, across a point, the whole part of a number.                  *)
RECURSIVE IsNumStart(_, _)
IsNumStart(txt, i) ==
    /\ txt[i] \in Digits
    /\ i = 1 \/ txt[i - 1] \notin Digits
    /\ ~(/\ i >= 3
         /\ txt[i - 1] = "."
         /\ txt[i - 2] \in Digits
         /\ IsNumStart(txt, RunStart(txt, i - 2)))

NumberCount(txt) == Cardinality({i \in 1..Len(txt) : IsNumStart(txt, i)})

C9_BuildKeys ==
    keys # NoKeys =>
        LET nums == FindNums(TextOf(text))
            key2 == keys.lookup_key
            key3 == keys.full_lookup_key
        IN  /\ Len(nums) = NumberCount(TextOf(text))
            /\ \A k \in 1..Len(nums) : IsSubstring(nums[k], TextOf(text))
            /\ key2 = <<>> <=> NumberCount(TextOf(text)) < 2
            /\ key3 = <<>> <=> NumberCount(TextOf(text)) < 3
            /\ key2 # <<>> => key2 = nums[1] \o <<"x">> \o nums[2]
            /\ key3 # <<>> => key3 = nums[1] \o <<"x">> \o nums[2] \o <<"x">> \o nums[3]
            /\ key3 # <<>> => StartsWith(key3, key2 \o <<"x">>)

Points(s) == Cardinality({i \in 1..Len(s) : s[i] = "."})

(* Three numbers, one of them a decimal, and a point that opens no fraction *)
C9_Witness ==
    /\ keys # NoKeys
    /\ keys.full_lookup_key # <<>>
    /\ Points(keys.full_lookup_key) >= 1
    /\ Points(TextOf(text)) > Points(keys.full_lookup_key)

(* C10.  A UC/UB lookup whose designation holds no digit returns no record: *)
(* it fails with the not-found error.                                       *)
C10_NoDigitsNotFound ==
    (QLoaded /\ \A i \in 1..Len(QDesignation) : QDesignation[i] \notin Digits) => NotFound

====
